---- MODULE Spec2Model ----
(***************************************************************************)
(* InferenceServiceReconciler (pkg/controller/v1beta1/inferenceservice/    *)
(* controller.go): one Reconcile pass fetches the InferenceService, runs   *)
(* the component reconcilers and the ingress reconciler on the in-memory   *)
(* object, and commits the status with updateStatus.                       *)
(*                                                                         *)
(* The store holds one InferenceService (one key) under a resourceVersion  *)
(* and accepts a status update only from an object that carries it.        *)
(* Workers run passes on that key.  Spec runs the passes one after the     *)
(* other (the dispatcher's same-key serialization); SpecConc lets two      *)
(* workers interleave.                                                     *)
(***************************************************************************)
EXTENDS Integers, Sequences, FiniteSets, TLC

\* Bounds of the model.
MaxPasses == 3          \* passes started in a serialized behaviour
MaxTime == 1            \* transition times of a condition: 0..MaxTime

Workers == {1, 2}
SerialWorkers == {1}

----------------------------------------------------------------------------
\* Status values.  Conditions is a Go slice: nil, or a list of conditions
\* with one entry per condition type; a condition carries its type, its
\* status and its LastTransitionTime (a VolatileTime).  URL stands for the
\* fields of the status that are plain values (URL, Address, Components).

ConditionReady == "Ready"
PredictorReady == "PredictorReady"
ConditionTrue == "True"
ConditionFalse == "False"
ConditionUnknown == "Unknown"

Times == 0..MaxTime

CondAt(t, s, tm) == [type |-> t, status |-> s, LastTransitionTime |-> tm]
Cond(t, s) == CondAt(t, s, 0)

NilConditions == [nil |-> TRUE, items |-> {}]
Conditions(cs) == [nil |-> FALSE, items |-> cs]

NoURL == ""
URLs == {NoURL, "http://isvc.default.example.com"}

Status(c, url) == [Conditions |-> c, URL |-> url]

\* The conditions of a service that became ready at time tm.
ReadyConditions(tm) ==
    {CondAt(ConditionReady, ConditionTrue, tm), Cond(PredictorReady, ConditionTrue)}

\* The statuses a sub-reconciler may leave in the object, and the store may
\* hold: five that are not ready, and the ready ones, which differ from each
\* other in the URL, in the time of the transition to ready, or in both.
StatusValues ==
    { Status(NilConditions, NoURL),
      Status(Conditions({}), NoURL),
      Status(Conditions({Cond(PredictorReady, ConditionTrue)}), NoURL),
      Status(Conditions({Cond(ConditionReady, ConditionFalse),
                         Cond(PredictorReady, ConditionTrue)}), NoURL),
      Status(Conditions({Cond(ConditionReady, ConditionUnknown),
                         Cond(PredictorReady, ConditionUnknown)}), NoURL) }
    \cup {Status(Conditions(ReadyConditions(tm)), url) : tm \in Times, url \in URLs}

\* Every status over three condition types, one condition per type at most,
\* the conditions of a status sharing their transition time.
IngressReady == "IngressReady"
ConditionTypes == {ConditionReady, PredictorReady, IngressReady}
ConditionStatuses == {ConditionTrue, ConditionFalse, ConditionUnknown}
AllConditions ==
    {cs \in SUBSET {Cond(t, s) : t \in ConditionTypes, s \in ConditionStatuses} :
        \A c, d \in cs : c.type = d.type => c = d}
At(cs, tm) == {CondAt(c.type, c.status, tm) : c \in cs}
AllStatusValues ==
    {Status(NilConditions, url) : url \in URLs}
    \cup {Status(Conditions(At(cs, tm)), url) : cs \in AllConditions, tm \in Times, url \in URLs}

SpecValues == [Transformer : BOOLEAN, Explainer : BOOLEAN]

\* status.GetCondition(t): the conditions of type t (empty: a nil pointer).
GetCondition(status, t) == {c \in status.Conditions.items : c.type = t}

inferenceServiceReadinessNoValue(status) ==
    /\ ~status.Conditions.nil
    /\ GetCondition(status, ConditionReady) # {}

inferenceServiceReadinessNotFalse(status) ==
    /\ ~status.Conditions.nil
    /\ GetCondition(status, ConditionReady) # {}
    /\ \A c \in GetCondition(status, ConditionReady) : c.status # ConditionFalse

\* inferenceServiceReadiness, controller.go:147-151
inferenceServiceReadiness(status) ==
    /\ ~status.Conditions.nil
    /\ GetCondition(status, ConditionReady) # {}
    /\ \A c \in GetCondition(status, ConditionReady) : c.status = ConditionTrue

\* Readiness of a status as the design defines it: the Ready condition is true.
IsReady(status) ==
    \E c \in status.Conditions.items : c.type = ConditionReady /\ c.status = ConditionTrue

DeepEqualNever(a, b) == FALSE

DeepEqualReadiness(a, b) == IsReady(a) = IsReady(b)

\* A condition list as equality.Semantic.DeepEqual sees it: every
\* VolatileTime equals every other, so the transition times do not count.
Timeless(cs) == {[type |-> c.type, status |-> c.status] : c \in cs}

\* equality.Semantic.DeepEqual on two statuses: a nil slice and an empty
\* slice are equal, transition times are not compared, everything else is
\* compared by value.
DeepEqual(a, b) ==
    /\ Timeless(a.Conditions.items) = Timeless(b.Conditions.items)
    /\ a.URL = b.URL

----------------------------------------------------------------------------
\* Events of the recorder.
EventTypeWarning == "Warning"
EventTypeNormal == "Normal"
InferenceServiceNotReadyState == "InferenceServiceNotReady"
InferenceServiceReadyState == "InferenceServiceReady"

Event(t, r) == [type |-> t, reason |-> r]

ReadinessReasons == {InferenceServiceNotReadyState, InferenceServiceReadyState}

ReadinessEventsOnWrite(wasReady, isReady) ==
    IF ~isReady THEN <<Event(EventTypeWarning, InferenceServiceNotReadyState)>>
    ELSE <<Event(EventTypeNormal, InferenceServiceReadyState)>>

ReadinessEventsNever(wasReady, isReady) == <<>>

ReadinessEventsIsReady(wasReady, isReady) ==
    IF wasReady /\ ~isReady
    THEN <<Event(EventTypeWarning, InferenceServiceNotReadyState)>>
    ELSE IF isReady
         THEN <<Event(EventTypeNormal, InferenceServiceReadyState)>>
         ELSE <<>>

\* The readiness notification after a successful write, controller.go:135-142
ReadinessEvents(wasReady, isReady) ==
    IF wasReady /\ ~isReady
    THEN <<Event(EventTypeWarning, InferenceServiceNotReadyState)>>
    ELSE IF ~wasReady /\ isReady
         THEN <<Event(EventTypeNormal, InferenceServiceReadyState)>>
         ELSE <<>>

\* The readiness notifications among the events.
Notifications(events) == SelectSeq(events, LAMBDA e : e.reason \in ReadinessReasons)

----------------------------------------------------------------------------
\* The ordered list of component reconcilers, controller.go:81-89

ReconcilersTransformerFirst(spec) ==
    (IF spec.Transformer THEN <<"transformer">> ELSE <<>>)
    \o <<"predictor">>
    \o (IF spec.Explainer THEN <<"explainer">> ELSE <<>>)

ReconcilersSwapped(spec) ==
    <<"predictor">>
    \o (IF spec.Explainer THEN <<"transformer">> ELSE <<>>)
    \o (IF spec.Explainer THEN <<"explainer">> ELSE <<>>)

Reconcilers(spec) ==
    <<"predictor">>
    \o (IF spec.Transformer THEN <<"transformer">> ELSE <<>>)
    \o (IF spec.Explainer THEN <<"explainer">> ELSE <<>>)

----------------------------------------------------------------------------
\* State.
\*   stored      the InferenceService in the store (found = FALSE: no object),
\*               with the resourceVersion the store gives it
\*   pass[w]     worker w's Reconcile pass: its position, its in-memory
\*               objects and what it has done so far
\*   started     passes started
\*   flips       successful status writes that changed the readiness of the
\*               stored status
\*   readyNotes  readiness notifications emitted
\*   call        one call of inferenceServiceReadiness: its argument, and its
\*               result once it has returned
VARIABLES stored, pass, started, flips, readyNotes, call

vars == <<stored, pass, started, flips, readyNotes, call>>

NilStatus == Status(NilConditions, NoURL)
NoSpec == [Transformer |-> FALSE, Explainer |-> FALSE]
NoObject == [found |-> FALSE, spec |-> NoSpec, status |-> NilStatus, resourceVersion |-> 0]
Object(spec, status, version) ==
    [found |-> TRUE, spec |-> spec, status |-> status, resourceVersion |-> version]

Invocation(name, ok) == [name |-> name, ok |-> ok]

\* A worker that has not run a pass yet.
IdlePass ==
    [pc |-> "idle",
     fetch |-> "none",           \* outcome of the initial Get
     isvc |-> [spec |-> NoSpec, status |-> NilStatus, resourceVersion |-> 0],
                                 \* isvc / desiredService
     fetched |-> NilStatus,      \* isvc.Status as the initial Get returned it
     refetch |-> "none",         \* outcome of the Get of updateStatus
     update |-> "none",          \* outcome of Status().Update
     existing |-> NilStatus,     \* existingService.Status of updateStatus
     existingVersion |-> 0,      \* existingService's resourceVersion
     conflict |-> FALSE,         \* the store turned Status().Update down with a conflict
     invoked |-> <<>>,           \* sub-reconcilers invoked, with their outcome
     events |-> <<>>,            \* events recorded in this pass
     writes |-> 0,               \* successful Status().Update calls
     err |-> "nil",              \* the error Reconcile returns
     requeue |-> FALSE,          \* reconcile.Result{}.Requeue
     stale |-> FALSE,            \* another pass wrote the status since the initial Get,
                                 \* while this pass was in progress
     sawNewer |-> FALSE,         \* and did so before the re-fetch of updateStatus
     prevOk |-> FALSE,           \* the worker's previous pass found the object and returned nil
     prevStatus |-> NilStatus]   \* and this was its desired status

NoCall == [status |-> NilStatus, returned |-> FALSE, result |-> FALSE]

ReturnedRequeueOnError(ps, e) == [ps EXCEPT !.pc = "done", !.err = e, !.requeue = (e # "nil")]

\* A return of Reconcile: reconcile.Result{} and the error e.
Returned(ps, e) == [ps EXCEPT !.pc = "done", !.err = e, !.requeue = FALSE]

Init ==
    /\ stored \in {NoObject} \cup {Object(sp, st, 1) : sp \in SpecValues, st \in StatusValues}
    /\ pass = [w \in Workers |-> IdlePass]
    /\ started = 0
    /\ flips = 0
    /\ readyNotes = 0
    /\ call = NoCall

----------------------------------------------------------------------------
\* Reconcile, controller.go:63-75: a new pass starts with r.Get.
NewPass(ps) ==
    LET ok == ps.pc = "done" /\ ps.fetch = "ok" /\ ps.err = "nil"
    IN [IdlePass EXCEPT !.prevOk = ok,
                        !.prevStatus = IF ok THEN ps.isvc.status ELSE NilStatus]

FetchedNotFoundIsError(ps, getErr, obj) ==
    IF getErr \/ ~obj.found
    THEN Returned([ps EXCEPT !.fetch = IF getErr THEN "error" ELSE "notfound"], "get")
    ELSE [ps EXCEPT !.pc = "config",
                    !.fetch = "ok",
                    !.isvc = [spec |-> obj.spec, status |-> obj.status,
                              resourceVersion |-> obj.resourceVersion],
                    !.fetched = obj.status]

FetchedWrapped(ps, getErr, obj) ==
    IF getErr
    THEN Returned([ps EXCEPT !.fetch = "error"], "wrapped get")
    ELSE IF ~obj.found
         THEN Returned([ps EXCEPT !.fetch = "notfound"], "nil")
         ELSE [ps EXCEPT !.pc = "config",
                         !.fetch = "ok",
                         !.isvc = [spec |-> obj.spec, status |-> obj.status,
                              resourceVersion |-> obj.resourceVersion],
                         !.fetched = obj.status]

\* controller.go:67-75
Fetched(ps, getErr, obj) ==
    IF getErr
    THEN Returned([ps EXCEPT !.fetch = "error"], "get")
    ELSE IF ~obj.found
         THEN Returned([ps EXCEPT !.fetch = "notfound"], "nil")
         ELSE [ps EXCEPT !.pc = "config",
                         !.fetch = "ok",
                         !.isvc = [spec |-> obj.spec, status |-> obj.status,
                              resourceVersion |-> obj.resourceVersion],
                         !.fetched = obj.status]

Fetch(w) ==
    /\ pass[w].pc \in {"idle", "done"}
    /\ \E getErr \in BOOLEAN :
          pass' = [pass EXCEPT ![w] = Fetched(NewPass(pass[w]), getErr, stored)]
    /\ started' = started + 1
    /\ UNCHANGED <<stored, flips, readyNotes, call>>

\* controller.go:77-80
NewInferenceServicesConfig(w) ==
    /\ pass[w].pc = "config"
    /\ \E ok \in BOOLEAN :
          pass' = [pass EXCEPT ![w] =
                      IF ok THEN [@ EXCEPT !.pc = "components"]
                      ELSE Returned(@, "config")]
    /\ UNCHANGED <<stored, started, flips, readyNotes, call>>

ComponentFailedContinue(ps, name) ==
    [ps EXCEPT !.invoked = Append(@, Invocation(name, FALSE)),
               !.pc = IF Len(ps.invoked) + 1 = Len(Reconcilers(ps.isvc.spec))
                      THEN "ingressConfig" ELSE "components"]

ComponentFailedTwoEvents(ps, name) ==
    Returned([ps EXCEPT !.invoked = Append(@, Invocation(name, FALSE)),
                        !.events = @ \o <<Event(EventTypeWarning, "InternalError"),
                                          Event(EventTypeWarning, "InternalError")>>],
             "component")

\* controller.go:91-95: the component returned an error.
ComponentFailed(ps, name) ==
    Returned([ps EXCEPT !.invoked = Append(@, Invocation(name, FALSE)),
                        !.events = Append(@, Event(EventTypeWarning, "InternalError"))],
             "component")

\* controller.go:90-96: the component succeeded and left status st in isvc.
ComponentReconciled(ps, name, st) ==
    [ps EXCEPT !.invoked = Append(@, Invocation(name, TRUE)),
               !.isvc.status = st,
               !.pc = IF Len(ps.invoked) + 1 = Len(Reconcilers(ps.isvc.spec))
                      THEN "ingressConfig" ELSE "components"]

\* One iteration of the loop over reconcilers, controller.go:90-96
ReconcileComponent(w) ==
    /\ pass[w].pc = "components"
    /\ LET name == Reconcilers(pass[w].isvc.spec)[Len(pass[w].invoked) + 1]
       IN \E ok \in BOOLEAN, st \in StatusValues :
             /\ ~ok => st = pass[w].isvc.status
             /\ pass' = [pass EXCEPT ![w] =
                            IF ok THEN ComponentReconciled(@, name, st)
                            ELSE ComponentFailed(@, name)]
    /\ UNCHANGED <<stored, started, flips, readyNotes, call>>

\* controller.go:98-101
NewIngressConfig(w) ==
    /\ pass[w].pc = "ingressConfig"
    /\ \E ok \in BOOLEAN :
          pass' = [pass EXCEPT ![w] =
                      IF ok THEN [@ EXCEPT !.pc = "ingress"]
                      ELSE Returned(@, "ingressConfig")]
    /\ UNCHANGED <<stored, started, flips, readyNotes, call>>

IngressFailedContinue(ps) ==
    [ps EXCEPT !.invoked = Append(@, Invocation("ingress", FALSE)), !.pc = "updateStatus"]

\* controller.go:104-106: the ingress reconciler returned an error.
IngressFailed(ps) ==
    Returned([ps EXCEPT !.invoked = Append(@, Invocation("ingress", FALSE))], "ingress")

IngressReconciled(ps, st) ==
    [ps EXCEPT !.invoked = Append(@, Invocation("ingress", TRUE)),
               !.isvc.status = st,
               !.pc = "updateStatus"]

\* controller.go:102-106
ReconcileIngress(w) ==
    /\ pass[w].pc = "ingress"
    /\ \E ok \in BOOLEAN, st \in StatusValues :
          /\ ~ok => st = pass[w].isvc.status
          /\ pass' = [pass EXCEPT ![w] =
                         IF ok THEN IngressReconciled(@, st) ELSE IngressFailed(@)]
    /\ UNCHANGED <<stored, started, flips, readyNotes, call>>

----------------------------------------------------------------------------
\* updateStatus, controller.go:116-145

RefetchedFallback(ps, getErr, obj) ==
    LET existing == IF getErr \/ ~obj.found THEN ps.fetched ELSE obj.status IN
    IF DeepEqual(existing, ps.isvc.status)
    THEN Returned([ps EXCEPT !.refetch = IF getErr \/ ~obj.found THEN "error" ELSE "ok",
                             !.existing = existing, !.existingVersion = obj.resourceVersion,
                             !.sawNewer = ps.stale], "nil")
    ELSE [ps EXCEPT !.refetch = IF getErr \/ ~obj.found THEN "error" ELSE "ok",
                    !.existing = existing, !.existingVersion = obj.resourceVersion,
                    !.sawNewer = ps.stale, !.pc = "update"]

\* controller.go:117-127 and 108-111: the re-fetch and the comparison.
Refetched(ps, getErr, obj) ==
    IF getErr \/ ~obj.found
    THEN Returned([ps EXCEPT !.refetch = "error",
                             !.events = Append(@, Event(EventTypeWarning, "InternalError"))],
                  "refetch")
    ELSE IF DeepEqual(obj.status, ps.isvc.status)
         THEN Returned([ps EXCEPT !.refetch = "ok", !.existing = obj.status,
                                  !.existingVersion = obj.resourceVersion,
                                  !.sawNewer = ps.stale], "nil")
         ELSE [ps EXCEPT !.refetch = "ok", !.existing = obj.status,
                         !.existingVersion = obj.resourceVersion,
                         !.sawNewer = ps.stale, !.pc = "update"]

updateStatusGet(w) ==
    /\ pass[w].pc = "updateStatus"
    /\ \E getErr \in BOOLEAN :
          pass' = [pass EXCEPT ![w] = Refetched(@, getErr, stored)]
    /\ UNCHANGED <<stored, started, flips, readyNotes, call>>

UpdateFailedNotifies(ps) ==
    Returned([ps EXCEPT !.update = "error",
                        !.events = @ \o ReadinessEvents(inferenceServiceReadiness(ps.existing),
                                                        inferenceServiceReadiness(ps.isvc.status))
                                     \o <<Event(EventTypeWarning, "UpdateFailed"),
                                          Event(EventTypeWarning, "InternalError")>>],
             "update")

UpdateFailedOneEvent(ps) ==
    Returned([ps EXCEPT !.update = "error",
                        !.events = @ \o <<Event(EventTypeWarning, "UpdateFailed")>>],
             "update")

\* controller.go:128-132 and 108-111: Status().Update returned an error.
UpdateFailed(ps) ==
    Returned([ps EXCEPT !.update = "error",
                        !.events = @ \o <<Event(EventTypeWarning, "UpdateFailed"),
                                          Event(EventTypeWarning, "InternalError")>>],
             "update")

StatusUpdatedRetry(ps) ==
    [ps EXCEPT !.writes = @ + 1,
               !.update = "ok",
               !.isvc.resourceVersion = @ + 1,
               !.events = @ \o ReadinessEvents(inferenceServiceReadiness(ps.existing),
                                               inferenceServiceReadiness(ps.isvc.status))]

\* controller.go:133-144: Status().Update succeeded.
StatusUpdated(ps) ==
    Returned([ps EXCEPT !.writes = @ + 1,
                        !.update = "ok",
                        !.isvc.resourceVersion = @ + 1,
                        !.events = @ \o ReadinessEvents(inferenceServiceReadiness(ps.existing),
                                                        inferenceServiceReadiness(ps.isvc.status))],
             "nil")

\* A pass in progress learns nothing of a write by another pass.
Outdated(ps) ==
    IF ps.pc \in {"idle", "done"} THEN ps ELSE [ps EXCEPT !.stale = TRUE]

UpdateObjectRefetched(ps) == [ps.isvc EXCEPT !.resourceVersion = ps.existingVersion]

\* The object handed to Status().Update, controller.go:128: desiredService,
\* with the resourceVersion the initial Get gave it.
UpdateObject(ps) == ps.isvc

\* The store's conditional status update: an object that does not carry the
\* resourceVersion of the stored one is turned down with a conflict.
Conflict(obj, current) == obj.resourceVersion # current.resourceVersion

\* r.Status().Update(ctx, desiredService), controller.go:128-144.  The store
\* accepts the update only for an object it holds and at its current
\* resourceVersion, and may fail for other reasons; an accepted update
\* replaces the stored status and gives the object a new resourceVersion.
StatusUpdate(w) ==
    /\ pass[w].pc = "update"
    /\ LET obj == UpdateObject(pass[w])
           conflict == stored.found /\ Conflict(obj, stored)
       IN \E ok \in BOOLEAN :
             /\ ok => (stored.found /\ ~conflict)
             /\ LET after == IF ok THEN StatusUpdated(pass[w])
                             ELSE [UpdateFailed(pass[w]) EXCEPT !.conflict = conflict]
                IN /\ stored' = IF ok
                                THEN [stored EXCEPT !.status = obj.status,
                                                    !.resourceVersion = @ + 1]
                                ELSE stored
                   /\ pass' = [v \in Workers |->
                                  IF v = w THEN after
                                  ELSE IF ok THEN Outdated(pass[v]) ELSE pass[v]]
                   /\ flips' = flips +
                         (IF ok /\ IsReady(stored.status) # IsReady(obj.status)
                          THEN 1 ELSE 0)
                   /\ readyNotes' = readyNotes + Len(Notifications(after.events))
                                               - Len(Notifications(pass[w].events))
    /\ UNCHANGED <<started, call>>

\* The object is deleted by its owner.
DeleteObject ==
    /\ stored.found
    /\ stored' = NoObject
    /\ UNCHANGED <<pass, started, flips, readyNotes, call>>

----------------------------------------------------------------------------
Step(w) ==
    \/ NewInferenceServicesConfig(w)
    \/ ReconcileComponent(w)
    \/ NewIngressConfig(w)
    \/ ReconcileIngress(w)
    \/ updateStatusGet(w)
    \/ StatusUpdate(w)

\* Passes on the key are serialized: one worker runs them one after the other.
Next ==
    \/ \E w \in SerialWorkers : started < MaxPasses /\ Fetch(w)
    \/ \E w \in SerialWorkers : Step(w)
    \/ DeleteObject

Spec == Init /\ [][Next]_vars

\* No serialization: the two workers run one pass each on the key, and the
\* steps of the two passes interleave.
NextConc ==
    \/ \E w \in Workers : pass[w].pc = "idle" /\ Fetch(w)
    \/ \E w \in Workers : Step(w)
    \/ DeleteObject

SpecConc == Init /\ [][NextConc]_vars

\* inferenceServiceReadiness on its own: a call with any status as argument.
InitReadiness ==
    /\ stored = NoObject
    /\ pass = [w \in Workers |-> IdlePass]
    /\ started = 0
    /\ flips = 0
    /\ readyNotes = 0
    /\ call \in {[NoCall EXCEPT !.status = st] : st \in AllStatusValues}

CallReadiness ==
    /\ ~call.returned
    /\ call' = [call EXCEPT !.returned = TRUE,
                            !.result = inferenceServiceReadiness(call.status)]
    /\ UNCHANGED <<stored, pass, started, flips, readyNotes>>

NextReadiness == CallReadiness

SpecReadiness == InitReadiness /\ [][NextReadiness]_vars

----------------------------------------------------------------------------
\* Properties.

Components == {"predictor", "transformer", "explainer"}

Names(ps) == {ps.invoked[i].name : i \in DOMAIN ps.invoked}
ComponentsInvoked(ps) == Names(ps) \cap Components
Failed(ps, names) == \E i \in DOMAIN ps.invoked :
                        ps.invoked[i].name \in names /\ ~ps.invoked[i].ok
ReadinessNotes(ps) == SelectSeq(ps.events, LAMBDA e : e.reason \in ReadinessReasons)
\* Two statuses hold the same conditions with the same values and the same
\* URL; the transition times and a nil list in the place of an empty one do
\* not count.
Equivalent(a, b) ==
    /\ a.URL = b.URL
    /\ \A t \in ConditionTypes, v \in ConditionStatuses :
          (\E c \in a.Conditions.items : c.type = t /\ c.status = v)
          <=> (\E c \in b.Conditions.items : c.type = t /\ c.status = v)
\* The pass has left the loop over the component reconcilers without a failure.
PastComponents(ps) ==
    \/ ps.pc \in {"ingressConfig", "ingress", "updateStatus", "update"}
    \/ ps.pc = "done" /\ ps.fetch = "ok" /\ ps.err \notin {"config", "component"}

\* C1: in a pass on an object that requests a transformer or an explainer,
\* the predictor reconciler is invoked before the transformer and the
\* explainer reconcilers, and once the predictor reconciler has failed
\* neither the transformer, the explainer nor the ingress reconciler is
\* invoked in that pass.
C1_PredictorFirst ==
    \A w \in Workers :
       LET ps == pass[w] IN
       (ps.fetch = "ok" /\ (ps.isvc.spec.Transformer \/ ps.isvc.spec.Explainer)) =>
          /\ \A i \in DOMAIN ps.invoked :
                ps.invoked[i].name \in {"transformer", "explainer"} =>
                   \E j \in 1..(i - 1) : ps.invoked[j].name = "predictor"
          /\ PastComponents(ps) => "predictor" \in Names(ps)
          /\ Failed(ps, {"predictor"}) =>
                Names(ps) \cap {"transformer", "explainer", "ingress"} = {}

C1_Witness ==
    \E w \in Workers :
       /\ pass[w].pc = "done"
       /\ pass[w].isvc.spec.Transformer
       /\ pass[w].isvc.spec.Explainer
       /\ pass[w].invoked = <<Invocation("predictor", FALSE)>>

\* C2: the component reconcilers invoked in a pass are decided by the spec of
\* the fetched object: the transformer only if it requests a transformer,
\* the explainer only if it requests an explainer, the predictor always; a
\* pass that leaves the loop without a failure has invoked exactly the
\* requested ones, the predictor alone when neither is requested.
C2_ComponentSet ==
    \A w \in Workers :
       LET ps == pass[w]
           cs == ComponentsInvoked(ps)
       IN /\ "transformer" \in cs => ps.isvc.spec.Transformer
          /\ "explainer" \in cs => ps.isvc.spec.Explainer
          /\ Names(ps) # {} => "predictor" \in cs
          /\ PastComponents(ps) =>
                cs = {"predictor"}
                     \cup (IF ps.isvc.spec.Transformer THEN {"transformer"} ELSE {})
                     \cup (IF ps.isvc.spec.Explainer THEN {"explainer"} ELSE {})

C2_Witness ==
    \E w \in Workers :
       /\ pass[w].pc = "done"
       /\ pass[w].err = "nil"
       /\ ~pass[w].isvc.spec.Transformer
       /\ pass[w].isvc.spec.Explainer
       /\ ComponentsInvoked(pass[w]) = {"predictor", "explainer"}

\* C3: a pass in which a component reconciler or the ingress reconciler has
\* failed writes no status, returns an error, and leaves the stored status
\* as the pass fetched it.
C3_FailedPassWritesNothing ==
    \A w \in Workers :
       LET ps == pass[w] IN
       Failed(ps, Components \cup {"ingress"}) =>
          /\ ps.pc = "done"
          /\ ps.writes = 0
          /\ ps.err # "nil"
          /\ stored.found => stored.status = ps.fetched

C3_Witness ==
    \E w \in Workers :
       /\ pass[w].pc = "done"
       /\ pass[w].invoked = <<Invocation("predictor", FALSE)>>
       /\ stored.found
       /\ IsReady(stored.status)
       /\ pass[w].prevOk

\* C4: a pass that follows a successful pass on the unchanged object, succeeds
\* and computes the same status performs no status write; a write is only
\* ever attempted when the re-fetched status differs from the desired one.
C4_SecondPassWritesNothing ==
    \A w \in Workers :
       LET ps == pass[w] IN
       /\ (/\ ps.pc = "done" /\ ps.fetch = "ok" /\ ps.err = "nil"
           /\ ps.prevOk /\ Equivalent(ps.prevStatus, ps.isvc.status)) => ps.writes = 0
       /\ (ps.pc = "update" \/ ps.writes > 0) => ~Equivalent(ps.existing, ps.isvc.status)

C4_Witness ==
    \E w \in Workers :
       /\ pass[w].pc = "done" /\ pass[w].fetch = "ok" /\ pass[w].err = "nil"
       /\ pass[w].prevOk /\ pass[w].prevStatus = pass[w].isvc.status
       /\ IsReady(pass[w].isvc.status)
       /\ Len(pass[w].invoked) = 4
       /\ pass[w].writes = 0

\* C5: with interleaved passes, a pass never replaces a stored status that
\* another pass wrote after this pass's initial fetch with the status it
\* computed from its older snapshot: a pass that has written had an object
\* no other pass had written since the initial fetch.
C5_NoStaleOverwrite ==
    \A w \in Workers : pass[w].writes > 0 => ~pass[w].stale

C5_Witness ==
    \E w \in Workers :
       /\ pass[w].pc = "done"
       /\ pass[w].sawNewer
       /\ pass[w].update = "error" /\ pass[w].conflict
       /\ pass[w].writes = 0
       /\ stored.found
       /\ stored.status = pass[w].existing
       /\ stored.status # pass[w].fetched
       /\ ~Equivalent(stored.status, pass[w].isvc.status)

\* C6: after a successful status write the pass has emitted the warning
\* "no longer ready" exactly when the re-fetched status was ready and the
\* written one is not, the normal "now ready" exactly when the re-fetched
\* status was not ready and the written one is, and nothing about readiness
\* when the two agree.
C6_ReadinessNotification ==
    \A w \in Workers :
       LET ps == pass[w]
           wasReady == IsReady(ps.existing)
           isReady == IsReady(ps.isvc.status)
       IN (ps.pc = "done" /\ ps.writes = 1) =>
          /\ ReadinessNotes(ps) =
                (IF wasReady /\ ~isReady
                 THEN <<Event(EventTypeWarning, InferenceServiceNotReadyState)>> ELSE <<>>)
                \o (IF ~wasReady /\ isReady
                    THEN <<Event(EventTypeNormal, InferenceServiceReadyState)>> ELSE <<>>)
          /\ wasReady = isReady => ReadinessNotes(ps) = <<>>

C6_Witness ==
    \E w \in Workers :
       /\ pass[w].pc = "done" /\ pass[w].writes = 1
       /\ IsReady(pass[w].existing) /\ IsReady(pass[w].isvc.status)
       /\ pass[w].existing.URL # pass[w].isvc.status.URL
       /\ stored.status = pass[w].isvc.status
       /\ pass[w].events = <<>>

\* C7: over serialized passes the readiness notifications emitted are as many
\* as the flips of the stored readiness, and a pass across which the stored
\* readiness is the same emits none, whatever else it wrote.
C7_OneNotificationPerFlip ==
    /\ readyNotes = flips
    /\ \A w \in Workers :
          LET ps == pass[w] IN
          (/\ ps.pc = "done" /\ ps.fetch = "ok" /\ stored.found
           /\ IsReady(ps.fetched) = IsReady(stored.status)) => ReadinessNotes(ps) = <<>>

C7_Witness ==
    \E w \in Workers :
       /\ pass[w].pc = "done" /\ pass[w].writes = 1
       /\ IsReady(pass[w].fetched) /\ IsReady(stored.status)
       /\ ~Equivalent(pass[w].fetched, stored.status)
       /\ stored.status = pass[w].isvc.status
       /\ ReadinessNotes(pass[w]) = <<>>
       /\ flips = 2 /\ readyNotes = 2

\* C8: a pass performs at most one status write.
C8_AtMostOneWrite ==
    \A w \in Workers : pass[w].writes <= 1

C8_Witness ==
    \E w \in Workers :
       /\ pass[w].pc = "done" /\ pass[w].writes = 1 /\ pass[w].err = "nil"
       /\ stored.status = pass[w].isvc.status

\* C9: a pass whose initial fetch reports not-found returns no error and no
\* requeue, has emitted no event, invoked no reconciler and written nothing.
C9_NotFoundIsNoOp ==
    \A w \in Workers :
       LET ps == pass[w] IN
       ps.fetch = "notfound" =>
          /\ ps.pc = "done"
          /\ ps.err = "nil"
          /\ ~ps.requeue
          /\ ps.events = <<>>
          /\ ps.invoked = <<>>
          /\ ps.writes = 0

C9_Witness ==
    \E w \in Workers :
       /\ pass[w].fetch = "notfound" /\ pass[w].pc = "done"
       /\ pass[w].prevOk
       /\ ~stored.found

\* C10: a pass in which a component reconciler has failed has emitted exactly
\* one event, a warning, and returns an error; the failed component is the
\* last reconciler it invoked, and it invoked no reconciler twice.
C10_ComponentFailure ==
    \A w \in Workers :
       LET ps == pass[w] IN
       Failed(ps, Components) =>
          /\ ps.pc = "done"
          /\ ps.err # "nil"
          /\ Len(ps.events) = 1
          /\ ps.events[1].type = EventTypeWarning
          /\ ~ps.invoked[Len(ps.invoked)].ok
          /\ \A i \in 1..(Len(ps.invoked) - 1) : ps.invoked[i].ok
          /\ Cardinality(Names(ps)) = Len(ps.invoked)

C10_Witness ==
    \E w \in Workers :
       /\ pass[w].pc = "done"
       /\ pass[w].isvc.spec.Explainer
       /\ pass[w].invoked = <<Invocation("predictor", TRUE), Invocation("transformer", FALSE)>>
       /\ pass[w].events = <<Event(EventTypeWarning, "InternalError")>>

\* C11: a pass in which every component reconciler succeeded and the ingress
\* reconciler failed has emitted a warning event and returns an error, as a
\* pass with a failed component does.
C11_IngressFailureWarns ==
    \A w \in Workers :
       LET ps == pass[w] IN
       Failed(ps, {"ingress"}) =>
          /\ ps.err # "nil"
          /\ \E i \in DOMAIN ps.events : ps.events[i].type = EventTypeWarning

\* C12: a pass whose status write failed has emitted the UpdateFailed
\* warning, returns an error, and has emitted no readiness notification,
\* whatever the readiness of the existing and the desired status.
C12_WriteFailure ==
    \A w \in Workers :
       LET ps == pass[w] IN
       ps.update = "error" =>
          /\ ps.pc = "done"
          /\ ps.err # "nil"
          /\ ps.writes = 0
          /\ ~Equivalent(ps.existing, ps.isvc.status)
          /\ \E i \in DOMAIN ps.events :
                ps.events[i] = Event(EventTypeWarning, "UpdateFailed")
          /\ ReadinessNotes(ps) = <<>>

C12_Witness ==
    \E w \in Workers :
       /\ pass[w].update = "error"
       /\ ~IsReady(pass[w].existing)
       /\ IsReady(pass[w].isvc.status)
       /\ stored.found

\* C13: inferenceServiceReadiness returns true exactly for a status whose
\* condition list is not nil, holds a Ready condition, and holds it with the
\* value True; a nil list, a list without Ready, Ready=False and
\* Ready=Unknown all give false.
C13_Readiness ==
    call.returned =>
       LET cs == call.status.Conditions
           ready == {c \in cs.items : c.type = ConditionReady}
       IN /\ call.result <=> (/\ ~cs.nil
                              /\ ready # {}
                              /\ \E c \in ready : c.status = ConditionTrue)
          /\ cs.nil => ~call.result
          /\ ready = {} => ~call.result
          /\ (\E c \in ready : c.status = ConditionFalse) => ~call.result
          /\ (\E c \in ready : c.status = ConditionUnknown) => ~call.result

C13_Witness ==
    /\ call.returned
    /\ call.result
    /\ call.status.Conditions.items =
          {Cond(ConditionReady, ConditionTrue), Cond(PredictorReady, ConditionFalse),
           Cond(IngressReady, ConditionUnknown)}

\* The order of the reconcilers of a pass on an object with this spec.
ExpectedOrder(spec) ==
    <<"predictor">>
    \o (IF spec.Transformer THEN <<"transformer">> ELSE <<>>)
    \o (IF spec.Explainer THEN <<"explainer">> ELSE <<>>)
    \o <<"ingress">>

\* C14: the reconcilers of a pass are invoked in the order predictor,
\* transformer, explainer, ingress, each once at most and each only after
\* the ones before it succeeded; the re-fetch comes only after the ingress
\* reconciler succeeded, the write only after the re-fetch, and a readiness
\* notification only after the write.
C14_StepOrder ==
    \A w \in Workers :
       LET ps == pass[w]
           order == ExpectedOrder(ps.isvc.spec)
       IN /\ Len(ps.invoked) <= Len(order)
          /\ \A i \in DOMAIN ps.invoked : ps.invoked[i].name = order[i]
          /\ \A i \in 1..(Len(ps.invoked) - 1) : ps.invoked[i].ok
          /\ (ps.refetch # "none" \/ ps.pc \in {"updateStatus", "update"}) =>
                /\ Len(ps.invoked) = Len(order)
                /\ \A i \in DOMAIN ps.invoked : ps.invoked[i].ok
          /\ (ps.update # "none" \/ ps.pc = "update" \/ ps.writes > 0) => ps.refetch = "ok"
          /\ ReadinessNotes(ps) # <<>> => ps.update = "ok" /\ ps.writes = 1

C14_Witness ==
    \E w \in Workers :
       /\ pass[w].pc = "done"
       /\ pass[w].invoked = <<Invocation("predictor", TRUE), Invocation("transformer", TRUE),
                              Invocation("explainer", TRUE), Invocation("ingress", TRUE)>>
       /\ pass[w].update = "ok"
       /\ ReadinessNotes(pass[w]) # <<>>

\* C15: a pass whose re-fetch failed returns the fetch error, has attempted
\* no status write, and has emitted no readiness notification.
C15_RefetchFailure ==
    \A w \in Workers :
       LET ps == pass[w] IN
       ps.refetch = "error" =>
          /\ ps.pc = "done"
          /\ ps.err = "refetch"
          /\ ps.update = "none"
          /\ ps.writes = 0
          /\ ReadinessNotes(ps) = <<>>

C15_Witness ==
    \E w \in Workers :
       /\ pass[w].refetch = "error"
       /\ stored.found
       /\ stored.status = pass[w].fetched
       /\ IsReady(pass[w].fetched) # IsReady(pass[w].isvc.status)

\* C16: a pass whose initial fetch failed with an error other than not-found
\* returns that error as it is, and has invoked no reconciler, written
\* nothing and emitted no event.
C16_FetchFailure ==
    \A w \in Workers :
       LET ps == pass[w] IN
       ps.fetch = "error" =>
          /\ ps.pc = "done"
          /\ ps.err = "get"
          /\ ps.invoked = <<>>
          /\ ps.refetch = "none"
          /\ ps.update = "none"
          /\ ps.writes = 0
          /\ ps.events = <<>>

C16_Witness ==
    \E w \in Workers :
       /\ pass[w].fetch = "error"
       /\ pass[w].pc = "done"
       /\ stored.found
       /\ pass[w].prevOk

\* Two passes re-fetched the same stored object, not ready, so each re-fetched
\* before the other wrote, and both called Status().Update with a ready status.
RacedToReady(v, w) ==
    /\ v # w
    /\ pass[v].pc = "done" /\ pass[w].pc = "done"
    /\ pass[v].update # "none" /\ pass[w].update # "none"
    /\ pass[v].existingVersion = pass[w].existingVersion
    /\ pass[v].existing = pass[w].existing
    /\ ~IsReady(pass[v].existing)
    /\ IsReady(pass[v].isvc.status) /\ IsReady(pass[w].isvc.status)

\* Status().Update of the pass failed, and not with a conflict.
StoreFailed(ps) == ps.update = "error" /\ ~ps.conflict

NowReady == <<Event(EventTypeNormal, InferenceServiceReadyState)>>

\* C17 as stated: without serialization, when two passes both re-fetch the
\* same not-ready status before either writes and both go on to write a ready
\* status, with the store at hand, both write and both emit "now ready", two
\* notifications for the one flip.
C17_BothWriteAndNotify ==
    \A v, w \in Workers :
       (RacedToReady(v, w) /\ ~StoreFailed(pass[v]) /\ ~StoreFailed(pass[w])) =>
          /\ pass[v].update = "ok" /\ pass[w].update = "ok"
          /\ ReadinessNotes(pass[v]) = NowReady
          /\ ReadinessNotes(pass[w]) = NowReady
          /\ readyNotes > flips

\* C17, amended: without serialization, when two passes both re-fetch the
\* same not-ready status before either writes and both call the status
\* update with a ready status, the store accepts one update at most; the pass
\* that wrote has emitted "now ready", the update of the other pass failed,
\* with a conflict if it came after the write and the object is still there,
\* and that pass has written nothing, has emitted no readiness notification
\* and returns an error; the notifications emitted are as many as the flips
\* of the stored readiness.
C17_OneWritesOneConflicts ==
    /\ readyNotes = flips
    /\ \A v, w \in Workers :
          RacedToReady(v, w) =>
             /\ ~(pass[v].update = "ok" /\ pass[w].update = "ok")
             /\ pass[v].update = "ok" =>
                   /\ ReadinessNotes(pass[v]) = NowReady
                   /\ pass[w].update = "error"
                   /\ (pass[w].stale /\ stored.found) => pass[w].conflict
                   /\ pass[w].writes = 0
                   /\ pass[w].err # "nil"
                   /\ ReadinessNotes(pass[w]) = <<>>

C17_Witness ==
    \E v, w \in Workers :
       /\ RacedToReady(v, w)
       /\ pass[v].update = "ok"
       /\ pass[w].stale /\ pass[w].conflict
       /\ stored.found
       /\ stored.status = pass[v].isvc.status
       /\ started = 2
       /\ flips = 1
       /\ readyNotes = 1

\* C18: when a serialized pass on a found object has returned no error, the
\* stored status is structurally equal to the desired status of the pass,
\* under the equality updateStatus compares statuses with: the same
\* conditions with the same values and the same URL, the transition times
\* and a nil list in the place of an empty one not counting.
C18_StoredEqualsDesired ==
    \A w \in Workers :
       LET ps == pass[w] IN
       (ps.pc = "done" /\ ps.fetch = "ok" /\ ps.err = "nil" /\ stored.found) =>
          Equivalent(stored.status, ps.isvc.status)

C18_Witness ==
    \E w \in Workers :
       /\ pass[w].pc = "done" /\ pass[w].fetch = "ok" /\ pass[w].err = "nil"
       /\ stored.found
       /\ pass[w].update = "ok"
       /\ ~Equivalent(pass[w].fetched, pass[w].isvc.status)
       /\ stored.status = pass[w].isvc.status
       /\ Len(pass[w].invoked) = 4

\* C19: a pass whose status write failed has emitted exactly two events, the
\* UpdateFailed warning and then the InternalError warning; a pass whose
\* re-fetch failed has emitted exactly one, the InternalError warning.
C19_FailureEvents ==
    \A w \in Workers :
       LET ps == pass[w] IN
       /\ ps.update = "error" =>
             ps.events = <<Event(EventTypeWarning, "UpdateFailed"),
                           Event(EventTypeWarning, "InternalError")>>
       /\ ps.refetch = "error" =>
             ps.events = <<Event(EventTypeWarning, "InternalError")>>

C19_Witness ==
    \E w \in Workers :
       /\ pass[w].pc = "done"
       /\ pass[w].update = "error"
       /\ pass[w].err = "update"
       /\ Len(pass[w].events) = 2
       /\ Len(pass[w].invoked) = 2

\* C20: no pass asks for a requeue, and a pass in which the fetch, a
\* component, the ingress, the re-fetch or the write failed returns an error.
C20_NoRequeue ==
    \A w \in Workers :
       LET ps == pass[w] IN
       /\ ~ps.requeue
       /\ (\/ ps.fetch = "error"
           \/ Failed(ps, Components \cup {"ingress"})
           \/ ps.refetch = "error"
           \/ ps.update = "error") => (ps.pc = "done" /\ ps.err # "nil")

C20_Witness ==
    \E w \in Workers :
       /\ pass[w].pc = "done"
       /\ Failed(pass[w], {"ingress"})
       /\ pass[w].err = "ingress"
       /\ ~pass[w].requeue
       /\ pass[w].prevOk

====
